---- MODULE Spec2Model ----
(***************************************************************************)
(* Model of the thermal printer command encoder of grengojbo/gotp          *)
(* (escpos/escpos.go, first revision in the file) and of the command-line  *)
(* orchestrator (main.go).                                                 *)
(*                                                                         *)
(* The encoder object is the record held by the variable p.  Every method  *)
(* of the Go type Escpos is an operator from a record to a record (or to a *)
(* record plus the returned error); the actions apply these operators.     *)
(* The model covers the build paths taken with Debug = false, where every  *)
(* write goes to the serial port.  The field Serial of the record is the   *)
(* transport: its health and the timeline of blocking sleeps and writes.   *)
(* Text is a sequence of Unicode code points, a byte string a sequence of  *)
(* integers 0..255.                                                        *)
(***************************************************************************)
EXTENDS Integers, Sequences, FiniteSets, TLC

VARIABLES p, last, pc, todo, opts, run, doc

vars == <<p, last, pc, todo, opts, run, doc>>

----------------------------------------------------------------------------
(* Bounds of the model *)

MaxLen == 2

MaxNodes == 1

\* text is written as long as the column counter is below this value
MaxColumnSeen == 36

----------------------------------------------------------------------------
(* Program constants *)

BAUDRATE == 19200

\* variant: the quotient is truncated, half the divisor is not added
BYTETIMETruncated == (11 * 1000000) \div BAUDRATE

BYTETIME == ((11 * 1000000) + (BAUDRATE \div 2)) \div BAUDRATE

ASCIILF == 10

----------------------------------------------------------------------------
(* Byte strings and the formatting verbs used by the encoder *)

\* fmt.Sprintf("%c", r): the UTF-8 encoding of the rune r
SprintfC(r) ==
    IF r < 0 \/ r > 1114111 \/ (r >= 55296 /\ r <= 57343) THEN <<239, 191, 189>>
    ELSE IF r < 128 THEN <<r>>
    ELSE IF r < 2048 THEN <<192 + (r \div 64), 128 + (r % 64)>>
    ELSE IF r < 65536 THEN <<224 + (r \div 4096), 128 + ((r \div 64) % 64), 128 + (r % 64)>>
    ELSE <<240 + (r \div 262144), 128 + ((r \div 4096) % 64),
           128 + ((r \div 64) % 64), 128 + (r % 64)>>

RECURSIVE StringBytes(_)
\* []byte(s) for a Go string s given as code points
StringBytes(s) ==
    IF s = <<>> THEN <<>> ELSE SprintfC(Head(s)) \o StringBytes(Tail(s))

----------------------------------------------------------------------------
(* Timing model and transport writes *)

\* an event of the timeline: a sleep of us microseconds, or a write.  For a
\* write, site names the statement of the source that issues it, due is the
\* delay that was pending (resumeTime) when it was issued and ok its result.
SleepEvent(us) == [k |-> "sleep", us |-> us, data |-> <<>>, due |-> 0, ok |-> TRUE]

WriteEvent(data, site, due, ok) ==
    [k |-> site, us |-> 0, data |-> data, due |-> due, ok |-> ok]

\* time.Sleep(d): the calling thread blocks for d microseconds
Sleep(e, us) == [e EXCEPT !.Serial.log = Append(@, SleepEvent(us))]

\* e.Serial.Write(data): the bytes are handed to the port; the write returns
\* an error when the port is down
SerialWrite(e, data, site) ==
    [e EXCEPT !.Serial.log =
        Append(@, WriteEvent(data, site, e.resumeTime, e.Serial.up))]

SerialErr(e) == ~e.Serial.up

\* variant: the delay is added to the pending delay instead of replacing it
timeoutSetAccumulates(e, x) == [e EXCEPT !.resumeTime = @ + x]

timeoutSet(e, x) == [e EXCEPT !.resumeTime = x]

timeoutWait(e) == Sleep(e, e.resumeTime)

\* variant: the error field holds the result of the latest write
WriteBytesKeepsLastResult(e, data) ==
    LET e1 == timeoutWait(e)
        e2 == SerialWrite(e1, data, "WriteBytes")
        e3 == [e2 EXCEPT !.err = SerialErr(e1)]
    IN  timeoutSet(e3, Len(data) * BYTETIME)

WriteBytes(e, data) ==
    LET e1 == timeoutWait(e)
        e2 == SerialWrite(e1, data, "WriteBytes")
        e3 == IF SerialErr(e1) THEN [e2 EXCEPT !.err = TRUE] ELSE e2
    IN  timeoutSet(e3, Len(data) * BYTETIME)

\* variant: the time of one byte is charged, whatever the length
WriteRawChargesOneByte(e, data) ==
    IF Len(data) > 0
    THEN timeoutSet(SerialWrite(timeoutWait(e), data, "WriteRaw"), BYTETIME)
    ELSE e

WriteRaw(e, data) ==
    IF Len(data) > 0
    THEN timeoutSet(SerialWrite(timeoutWait(e), data, "WriteRaw"),
                    Len(data) * BYTETIME)
    ELSE e

Write(e, data) == WriteRaw(e, data)

IsOk(e) == ~e.err

----------------------------------------------------------------------------
(* Construction and reset *)

\* variant: the GS toggles reverse and smooth are not restored
resetKeepsGSToggles(e) ==
    LET e1 == Write(e, <<27, 64>>)
        e2 == [e1 EXCEPT !.width = 1, !.height = 1,
                         !.underline = 0, !.emphasize = 0,
                         !.upsidedown = 0, !.rotate = 0,
                         !.prevByte = ASCIILF, !.column = 0,
                         !.maxColumn = 32, !.charHeight = 24,
                         !.lineSpacing = 6, !.barcodeHeight = 50,
                         !.printDensity = 10]
    IN  IF e2.Firmware >= 264
        THEN WriteBytes(WriteBytes(Write(e2, <<27, 68>>), <<4, 8, 12, 16>>),
                        <<20, 24, 28, 0>>)
        ELSE e2

reset(e) ==
    LET e1 == Write(e, <<27, 64>>)
        e2 == [e1 EXCEPT !.width = 1, !.height = 1,
                         !.underline = 0, !.emphasize = 0,
                         !.upsidedown = 0, !.rotate = 0,
                         !.reverse = 0, !.smooth = 0,
                         !.prevByte = ASCIILF, !.column = 0,
                         !.maxColumn = 32, !.charHeight = 24,
                         !.lineSpacing = 6, !.barcodeHeight = 50,
                         !.printDensity = 10]
    IN  IF e2.Firmware >= 264
        THEN WriteBytes(WriteBytes(Write(e2, <<27, 68>>), <<4, 8, 12, 16>>),
                        <<20, 24, 28, 0>>)
        ELSE e2

\* the zero value of the struct, with the port opened
Zero ==
    [enc |-> "PC437", Serial |-> [up |-> TRUE, log |-> <<>>],
     width |-> 0, height |-> 0,
     underline |-> 0, emphasize |-> 0, upsidedown |-> 0, rotate |-> 0,
     prevByte |-> 0, column |-> 0, maxColumn |-> 0,
     charHeight |-> 0, lineSpacing |-> 0, barcodeHeight |-> 0,
     printDensity |-> 0, printBreakTime |-> 0,
     reverse |-> 0, smooth |-> 0,
     resumeTime |-> 0, dotPrintTime |-> 0, dotFeedTime |-> 0,
     maxChunkHeight |-> 0,
     Firmware |-> 0, err |-> FALSE]

New ==
    LET e1 == [Zero EXCEPT !.enc = "PC437", !.Firmware = 268]
        e2 == [e1 EXCEPT !.printDensity = 10, !.printBreakTime = 2]
    IN  reset(timeoutSet(e2, 500000))

\* the bytes the transport has received, in order
RECURSIVE Flatten(_)
Flatten(log) ==
    IF log = <<>> THEN <<>>
    ELSE Head(log).data \o Flatten(Tail(log))

Bytes(e) == Flatten(e.Serial.log)

\* the encoder at the start of a call: the timeline is that of this call
Fresh(e) == [e EXCEPT !.Serial.log = <<>>]

----------------------------------------------------------------------------
(* Inputs of the operations *)

\* 'a', line feed, DC3 (0x13)
Chars == {97, 10, 19}

ShortTexts == UNION { [1 .. n -> Chars] : n \in 0 .. MaxLen }

\* the texts written one byte at a time: 'a', line feed, DC3, DC3 and 'a'
ColumnTexts == { <<97>>, <<10>>, <<19>>, <<19, 97>> }

\* "&lt;", "&#10;", "&amp;lt;", e acute, euro sign
SampleTexts ==
    { <<38, 108, 116, 59>>, <<38, 35, 49, 48, 59>>,
      <<38, 97, 109, 112, 59, 108, 116, 59>>, <<233>>, <<8364>> }

Row(text, align, style, size, line, image, barCode, qrCode) ==
    [Line |-> line, Align |-> align, Style |-> style, Size |-> size,
     Text |-> text, Image |-> image, BarCode |-> barCode, QrCode |-> qrCode]

TextRow(text, align, style, size) ==
    Row(text, align, style, size, FALSE, FALSE, FALSE, FALSE)

RuleRow == Row(<<>>, "", "", "", TRUE, FALSE, FALSE, FALSE)

BarCodeRow == Row(<<49, 50>>, "C", "", "", FALSE, FALSE, TRUE, FALSE)

ImageRow == Row(<<>>, "", "", "", FALSE, TRUE, FALSE, FALSE)

QrCodeRow == Row(<<>>, "", "", "", FALSE, FALSE, FALSE, TRUE)

\* the rows WriteNode is called with
Rows ==
    { TextRow(<<97>>, "center", "", "normal"),
      TextRow(<<97, 97>>, "left", "bold", "large"),
      TextRow(<<>>, "middle", "small", ""),
      Row(<<97>>, "right", "", "normal", TRUE, FALSE, FALSE, FALSE),
      RuleRow }

RowSeqs == UNION { [1 .. n -> Rows] : n \in 0 .. MaxNodes }

Options(height, chr, code) == [Height |-> height, Chr |-> chr, Code |-> code]

OptionSets == { Options(80, 2, "CODE128") }

\* the rows of the documents written node by node: text runs of each style,
\* with a text that is empty, with a text that has no encoding and an
\* alignment that is not a token; a barcode; a rule; an image
NodeRows ==
    { TextRow(<<97>>, "center", "bold", "normal"),
      TextRow(<<97>>, "right", "small", "large"),
      TextRow(<<>>, "L", "bold", "medium"),
      TextRow(<<8364>>, "middle", "", "normal"),
      BarCodeRow, RuleRow, ImageRow }

NodeSeqs == UNION { [1 .. n -> NodeRows] : n \in 0 .. MaxNodes + 1 }

\* the barcode options of those documents
NodeOptionSets == { Options(200, 0, "EAN13") }

AlignTokens == {"left", "center", "right", "L", "C", "R", "", "Left", "middle"}

SizeTokens == {"large", "L", "medium", "M", "normal", "huge"}

CodePages == {"PC437", "PC850", "CP1251", "KOI8"}

FeedCounts == {0, 1, 3, 130}

\* values of a one-byte parameter (uint8): the two ends of every block of
\* eight, which has 0, 127, 128 and 255, and the values next to 0 and 128
ByteValues == { v \in 0 .. 255 : v % 8 \in {0, 7} } \cup {1, 2, 129}

BarCodeCalls == { <<"CODE128", <<49, 50>>>>, <<"QR", <<>>>> }

\* the names of the table of BarCode, and names that are not in it
SymbologyNames ==
    { "UPC_A", "UPC_E", "UPCA", "UPCE", "EAN13", "EAN8", "CODE39", "I25",
      "CODEBAR", "CODE93", "CODE128", "CODE11", "MSI", "QR", "code128", "" }

FirmwareLevels == {263, 268}

LangCodes == {"en", "uk", "no", "ru", ""}

\* the templates of the file command
STORE == <<83, 84, 79, 82, 69>>

ITEM1 == <<105, 116, 101, 109, 32, 49>>

THANKS == <<84, 72, 65, 78, 75, 83>>

Template(header, lines, footer, barCode, encode) ==
    [Header |-> header, Lines |-> lines, Footer |-> footer,
     BarCode |-> barCode, encode |-> encode]

\* header, lines and footer of the end-to-end scenario
ScenarioDoc ==
    Template(<< TextRow(STORE, "center", "", "") >>,
             << TextRow(ITEM1, "left", "", ""), RuleRow >>,
             << TextRow(THANKS, "center", "", "") >>,
             Options(50, 2, "CODE128"), "PC437")

EmptyDoc == Template(<<>>, <<>>, <<>>, Options(50, 2, "CODE128"), "PC437")

\* the sections a template is made of
Sections ==
    { <<>>, <<RuleRow>>, <<BarCodeRow>>, <<ImageRow>>, <<QrCodeRow>>,
      << TextRow(<<97, 8364>>, "right", "small", "large") >> }

Templates ==
    {ScenarioDoc}
    \cup { Template(h, l, f, Options(50, 2, "CODE128"), c) :
             h \in Sections, l \in Sections, f \in {<<>>, <<RuleRow>>},
             c \in {"PC437", "CP1251"} }

\* every text an operation of the model is called with
AllTexts ==
    ShortTexts \cup SampleTexts \cup { r.Text : r \in Rows }
    \cup { s[1].Text : s \in Sections \ {<<>>} }
    \cup {STORE, ITEM1, THANKS} \cup ColumnTexts

----------------------------------------------------------------------------
(* Entity replacement and transcoding *)

\* the replacement table, in the order of the source text
textReplaceMap ==
    << [k |-> <<38, 35, 57, 59>>,            v |-> <<9>>],
       [k |-> <<38, 35, 120, 57, 59>>,       v |-> <<9>>],
       [k |-> <<38, 35, 49, 48, 59>>,        v |-> <<10>>],
       [k |-> <<38, 35, 120, 65, 59>>,       v |-> <<10>>],
       [k |-> <<38, 97, 112, 111, 115, 59>>, v |-> <<39>>],
       [k |-> <<38, 113, 117, 111, 116, 59>>, v |-> <<34>>],
       [k |-> <<38, 103, 116, 59>>,          v |-> <<62>>],
       [k |-> <<38, 108, 116, 59>>,          v |-> <<60>>],
       [k |-> <<38, 97, 109, 112, 59>>,      v |-> <<38>>] >>

\* the index of the ampersand entity in the table
AmpKey == Len(textReplaceMap)

RECURSIVE Replace(_, _, _)
\* strings.Replace(s, k, v, -1): every non-overlapping instance, left to right
Replace(s, k, v) ==
    IF Len(s) < Len(k) THEN s
    ELSE IF SubSeq(s, 1, Len(k)) = k
         THEN v \o Replace(SubSeq(s, Len(k) + 1, Len(s)), k, v)
         ELSE <<Head(s)>> \o Replace(Tail(s), k, v)

RECURSIVE ReplaceInOrder(_, _)
\* the loop body of textReplace applied for the keys ks, in that order
ReplaceInOrder(data, ks) ==
    IF ks = <<>> THEN data
    ELSE ReplaceInOrder(Replace(data, textReplaceMap[Head(ks)].k,
                                      textReplaceMap[Head(ks)].v), Tail(ks))

RECURSIVE Ascending(_)
\* the elements of a set of table indices, ascending
Ascending(S) ==
    IF S = {} THEN <<>>
    ELSE LET m == CHOOSE x \in S : \A y \in S : x <= y
         IN  <<m>> \o Ascending(S \ {m})

\* The traversal orders of the map.  The iteration order of a Go map is not
\* specified.  No entity other than the ampersand entity yields a character
\* of an entity, and no two entities overlap, so a traversal is determined,
\* as far as the result goes, by the set of entities visited after the
\* ampersand entity.
MapOrders ==
    { Ascending((1 .. (AmpKey - 1)) \ after) \o <<AmpKey>> \o Ascending(after) :
        after \in SUBSET (1 .. (AmpKey - 1)) }

\* the results textReplace can return, tabulated for the texts of the model
textReplaceResults ==
    [data \in AllTexts |-> { ReplaceInOrder(data, ks) : ks \in MapOrders }] @@ <<>>

\* the results textReplace can return for data
textReplace(data) == textReplaceResults[data]

\* charmap encoders: the byte of a code point, or -1 when it has none
EncByte(enc, r) ==
    IF r < 128 THEN r
    ELSE IF r = 233 /\ enc \in {"PC437", "PC850"} THEN 130
    ELSE IF r = 8364 /\ enc = "CP1251" THEN 136
    ELSE -1

\* e.enc.String(data)
encString(enc, data) ==
    IF \E i \in 1 .. Len(data) : EncByte(enc, data[i]) = -1
    THEN [err |-> TRUE, raw |-> <<>>]
    ELSE [err |-> FALSE, raw |-> [i \in 1 .. Len(data) |-> EncByte(enc, data[i])]]

----------------------------------------------------------------------------
(* Operations of the encoder *)

\* variant: the tokens are compared without regard to case
SetAlignIgnoresCase(e, align) ==
    LET a == CASE align \in {"left", "Left", "L"} -> 0
               [] align = "center" -> 1
               [] align = "right" -> 2
               [] align = "C" -> 1
               [] align = "R" -> 2
               [] OTHER -> 0
        err == align \notin {"left", "Left", "center", "right", "L", "C", "R"}
    IN  [e |-> Write(e, <<27, 97>> \o SprintfC(a)), err |-> err]

SetAlign(e, align) ==
    LET a == CASE align = "left" -> 0
               [] align = "center" -> 1
               [] align = "right" -> 2
               [] align = "L" -> 0
               [] align = "C" -> 1
               [] align = "R" -> 2
               [] OTHER -> 0
        err == align \notin {"left", "center", "right", "L", "C", "R"}
    IN  [e |-> Write(e, <<27, 97>> \o SprintfC(a)), err |-> err]

\* one pass of the loop of WriteText for the byte c
writeByte(e, c) ==
    IF c # 19
    THEN LET e1 == timeoutWait(e)
             e2 == SerialWrite(e1, <<c>>, "text")
             e3 == IF SerialErr(e1) THEN [e2 EXCEPT !.err = TRUE] ELSE e2
         IN  IF c = ASCIILF \/ e3.column = e3.maxColumn
             THEN LET e4 == timeoutSet(e3, BYTETIME
                               + ((e3.charHeight + e3.lineSpacing) * e3.dotFeedTime))
                      e5 == timeoutWait(e4)
                      e6 == [e5 EXCEPT !.column = 0]
                      e7 == SerialWrite(e6, <<ASCIILF>>, "wrap")
                      e8 == IF SerialErr(e6) THEN [e7 EXCEPT !.err = TRUE] ELSE e7
                      d  == BYTETIME + ((e8.charHeight * e8.dotPrintTime)
                                        + (e8.lineSpacing * e8.dotFeedTime))
                  IN  [timeoutSet(e8, d) EXCEPT !.prevByte = ASCIILF]
             ELSE LET e4 == [e3 EXCEPT !.column = (@ + 1) % 256]
                  IN  [timeoutSet(e4, BYTETIME) EXCEPT !.prevByte = c]
    ELSE e

\* variant: only the first byte of the text is processed
writeLoopFirstByte(e, raw) ==
    IF raw = <<>> THEN e ELSE writeByte(e, Head(raw))

RECURSIVE writeLoopCountsDC3(_, _)
\* variant: a byte 0x13 is not sent but takes a column
writeLoopCountsDC3(e, raw) ==
    IF raw = <<>> THEN e
    ELSE IF Head(raw) = 19
    THEN writeLoopCountsDC3([e EXCEPT !.column = (@ + 1) % 256], Tail(raw))
    ELSE writeLoopCountsDC3(writeByte(e, Head(raw)), Tail(raw))

RECURSIVE writeLoop(_, _)
writeLoop(e, raw) ==
    IF raw = <<>> THEN e ELSE writeLoop(writeByte(e, Head(raw)), Tail(raw))

\* variant: the characters before the first one without a representation
\* are sent before the error is returned
writeReplacedSendsPrefix(e, replaced) ==
    LET r == encString(e.enc, replaced)
        bad == { i \in 1 .. Len(replaced) : EncByte(e.enc, replaced[i]) = -1 }
        k == CHOOSE i \in bad : \A j \in bad : i <= j
        prefix == [i \in 1 .. (k - 1) |-> EncByte(e.enc, replaced[i])]
    IN  IF r.err THEN [e |-> writeLoop(e, prefix), err |-> "encode"]
        ELSE IF Len(r.raw) > 0 THEN [e |-> writeLoop(e, r.raw), err |-> "nil"]
        ELSE [e |-> e, err |-> "empty"]

\* variant: a text of length zero is a success
writeReplacedEmptyIsNil(e, replaced) ==
    LET r == encString(e.enc, replaced)
    IN  IF r.err THEN [e |-> e, err |-> "encode"]
        ELSE [e |-> writeLoop(e, r.raw), err |-> "nil"]

\* WriteText after the replacement has returned replaced
writeReplaced(e, replaced) ==
    LET r == encString(e.enc, replaced)
    IN  IF r.err THEN [e |-> e, err |-> "encode"]
        ELSE IF Len(r.raw) > 0 THEN [e |-> writeLoop(e, r.raw), err |-> "nil"]
        ELSE [e |-> e, err |-> "empty"]

\* the outcomes of WriteText(data)
WriteText(e, data) == { writeReplaced(e, d) : d \in textReplace(data) }

SetCodePage(e, code) ==
    LET enc == IF code \in {"PC437", "PC850", "CP1251"} THEN code ELSE e.enc
        n == CASE code = "PC437" -> 0
               [] code = "PC850" -> 2
               [] code = "CP1251" -> 6
               [] OTHER -> 47
    IN  Write([e EXCEPT !.enc = enc], <<27, 116>> \o SprintfC(n))

RECURSIVE linePrintLoop(_, _)
\* the loop of LinePrint from the counter i on
linePrintLoop(e, i) ==
    IF i < e.maxColumn THEN linePrintLoop(Write(e, <<45>>), i + 1) ELSE e

LinePrint(e) == linePrintLoop(e, 0)

RECURSIVE feedLoop(_, _, _)
\* the loop of Feed from the counter i on, in the branch Firmware < 264
feedLoop(e, i, n) ==
    IF e.Firmware < 264 /\ i < n THEN feedLoop(WriteBytes(e, <<10>>), i + 1, n) ELSE e

Feed(e, n) ==
    IF e.Firmware >= 264
    THEN LET e1 == Write(e, <<27, 100>> \o SprintfC(n))
             e2 == timeoutSet(e1, e1.dotFeedTime * e1.charHeight)
         IN  [e2 EXCEPT !.prevByte = ASCIILF, !.column = 0]
    ELSE feedLoop(e, 0, n)

\* variant: two feed units instead of one
LinefeedTwoUnits(e) == Feed(e, 2)

Linefeed(e) == Feed(e, 1)

SetBold(e, state) ==
    IF state THEN WriteBytes(WriteBytes(e, <<27, 32, 1>>), <<27, 69, 1>>)
    ELSE WriteBytes(WriteBytes(e, <<27, 32, 0>>), <<27, 69, 0>>)

SetSmall(e, state) ==
    IF state THEN WriteBytes(e, <<27, 33, 1>>) ELSE WriteBytes(e, <<27, 33, 0>>)

SetFontSize(e, name) ==
    IF name = "large" \/ name = "L"
    THEN WriteBytes([e EXCEPT !.charHeight = 48, !.maxColumn = 16], <<29, 33, 17, 10>>)
    ELSE IF name = "medium" \/ name = "M"
    THEN WriteBytes([e EXCEPT !.charHeight = 48, !.maxColumn = 32], <<29, 33, 1, 10>>)
    ELSE WriteBytes([e EXCEPT !.charHeight = 24, !.maxColumn = 32], <<29, 33, 0, 10>>)

setBarcodeHeight(e, val) ==
    LET v == IF val < 1 THEN 1 ELSE IF val > 255 THEN 255 ELSE val
    IN  Write([e EXCEPT !.barcodeHeight = v], <<29, 104>> \o SprintfC(v))

BarcodeChr(e, val) == Write(e, <<29, 104>> \o SprintfC(val))

\* variant: a name that is not in the table selects the code 0
barcodeTypeUnknownIsZero(code) ==
    CASE code = "UPC_A" -> 0
      [] code = "UPC_E" -> 1
      [] code = "UPCA" -> 0
      [] code = "UPCE" -> 1
      [] code = "EAN13" -> 2
      [] code = "EAN8" -> 3
      [] code = "CODE39" -> 4
      [] code = "I25" -> 5
      [] code = "CODEBAR" -> 6
      [] code = "CODE93" -> 7
      [] code = "CODE128" -> 8
      [] code = "CODE11" -> 9
      [] code = "MSI" -> 10
      [] OTHER -> 0

\* the switch of BarCode: the code of the symbology named code
barcodeType(code) ==
    CASE code = "UPC_A" -> 0
      [] code = "UPC_E" -> 1
      [] code = "UPCA" -> 0
      [] code = "UPCE" -> 1
      [] code = "EAN13" -> 2
      [] code = "EAN8" -> 3
      [] code = "CODE39" -> 4
      [] code = "I25" -> 5
      [] code = "CODEBAR" -> 6
      [] code = "CODE93" -> 7
      [] code = "CODE128" -> 8
      [] code = "CODE11" -> 9
      [] code = "MSI" -> 10
      [] OTHER -> 4

\* variant: the width command comes before the label-position command
BarCodeWidthFirst(e, code, data) ==
    LET a == IF code = "CODE128" THEN 8 ELSE 4
        e1 == WriteBytes(e, <<29, 119, 3>>)
        e2 == WriteBytes(e1, <<29, 72, 2>>)
        e3 == Write(e2, <<29, 107>> \o SprintfC(a))
        e4 == timeoutWait(e3)
        e5 == timeoutSet(e4, (e4.barcodeHeight + 40) * e4.dotPrintTime)
        e6 == Write(e5, StringBytes(data))
    IN  Feed([e6 EXCEPT !.prevByte = ASCIILF], 2)

BarCode(e, code, data) ==
    LET a == barcodeType(code)
        e1 == WriteBytes(e, <<29, 72, 2>>)
        e2 == WriteBytes(e1, <<29, 119, 3>>)
        e3 == Write(e2, <<29, 107>> \o SprintfC(a))
        e4 == timeoutWait(e3)
        e5 == timeoutSet(e4, (e4.barcodeHeight + 40) * e4.dotPrintTime)
        e6 == Write(e5, StringBytes(data))
    IN  Feed([e6 EXCEPT !.prevByte = ASCIILF], 2)

Init_(e) == Write(reset(e), <<27, 64>>)

SendUnderline(e) == Write(e, <<27, 45>> \o SprintfC(e.underline))

SendEmphasize(e) == Write(e, <<27, 71>> \o SprintfC(e.emphasize))

SendUpsidedown(e) == Write(e, <<27, 123>> \o SprintfC(e.upsidedown))

SendRotate(e) == Write(e, <<27, 82>> \o SprintfC(e.rotate))

SendReverse(e) == Write(e, <<29, 66>> \o SprintfC(e.reverse))

SendSmooth(e) == Write(e, <<29, 98>> \o SprintfC(e.smooth))

SetUnderline(e, v) == SendUnderline([e EXCEPT !.underline = v])

SetEmphasize(e, u) == SendEmphasize([e EXCEPT !.emphasize = u])

SetUpsidedown(e, v) == SendUpsidedown([e EXCEPT !.upsidedown = v])

SetRotate(e, v) == SendRotate([e EXCEPT !.rotate = v])

SetReverse(e, v) == SendReverse([e EXCEPT !.reverse = v])

SetSmooth(e, v) == SendSmooth([e EXCEPT !.smooth = v])

Cut(e) == Write(e, <<29, 86, 65, 48>>)

\* SetLang: the encoder after the call, or fatal when log.Fatal ends the
\* process before anything is written
SetLang(e, lang) ==
    LET l == CASE lang = "en" -> 0
               [] lang = "fr" -> 1
               [] lang = "de" -> 2
               [] lang = "uk" -> 3
               [] lang = "da" -> 4
               [] lang = "sv" -> 5
               [] lang = "it" -> 6
               [] lang = "es" -> 7
               [] lang = "ja" -> 8
               [] lang = "no" -> 9
               [] OTHER -> 0
        known == lang \in {"en", "fr", "de", "uk", "da", "sv", "it", "es", "ja", "no"}
    IN  IF known THEN [e |-> Write(e, <<27, 82>> \o SprintfC(l)), fatal |-> FALSE]
        ELSE [e |-> e, fatal |-> TRUE]

TestPage(e) ==
    LET e1 == Write(e, <<18, 84>>)
    IN  timeoutSet(e1, e1.dotPrintTime * 24 * 26 + e1.dotFeedTime * (6 * 26 + 30))

wake(e) ==
    LET e1 == WriteBytes(timeoutSet(e, 0), <<255>>)
    IN  IF e1.Firmware >= 264
        THEN WriteBytes(Sleep(e1, 50000), <<27, 56, 0, 0>>)
        ELSE timeoutSet(WriteBytes(e1, <<0, 0, 0, 0, 0, 0, 0, 0, 0, 0>>), 10000)

\* variant: reset comes before the wake sequence
BeginResetsBeforeWake(e) ==
    LET e1 == wake(reset(timeoutSet(e, 500000)))
        e2 == WriteBytes(Write(e1, <<27, 55>>), <<11, 80, 40>>)
        e3 == [e2 EXCEPT !.printDensity = 10, !.printBreakTime = 2]
        e4 == Write(e3, <<18, 35>>
                        \o SprintfC(((e3.printBreakTime * 32) % 256) + e3.printDensity))
    IN  [e4 EXCEPT !.dotPrintTime = 30000, !.dotFeedTime = 2100,
                   !.maxChunkHeight = 255]

Begin(e) ==
    LET e1 == reset(wake(timeoutSet(e, 500000)))
        e2 == WriteBytes(Write(e1, <<27, 55>>), <<11, 80, 40>>)
        e3 == [e2 EXCEPT !.printDensity = 10, !.printBreakTime = 2]
        e4 == Write(e3, <<18, 35>>
                        \o SprintfC(((e3.printBreakTime * 32) % 256) + e3.printDensity))
    IN  [e4 EXCEPT !.dotPrintTime = 30000, !.dotFeedTime = 2100,
                   !.maxChunkHeight = 255]

----------------------------------------------------------------------------
(* WriteNode: the body of the loop for one row, in the three stretches     *)
(* before, at and after the call of WriteText                              *)

IsTextRun(row) ==
    /\ ~(row.Line /\ Len(row.Text) = 0)
    /\ ~row.Image
    /\ ~row.BarCode
    /\ ~row.QrCode

\* a row that is not a text run: rule, image, barcode or QR code
nodeOther(e, row, set) ==
    IF row.Line /\ Len(row.Text) = 0 THEN LinePrint(e)
    ELSE IF row.Image THEN e
    ELSE IF row.BarCode
    THEN BarCode(setBarcodeHeight(BarcodeChr(SetAlign(e, row.Align).e, set.Chr),
                                  set.Height),
                 set.Code, row.Text)
    ELSE e

\* a text run up to the call of WriteText
nodeOpen(e, row) ==
    LET e1 == IF row.Style = "bold" THEN SetBold(e, TRUE)
              ELSE IF row.Style = "small" THEN SetSmall(e, TRUE)
              ELSE e
        e2 == IF row.Size # "normal" THEN SetFontSize(e1, row.Size) ELSE e1
    IN  SetAlign(e2, row.Align).e

\* variant: the font size is not set back
nodeCloseKeepsSize(e, row) ==
    LET e1 == timeoutWait(Linefeed(timeoutWait(e)))
        e2 == SetAlign(e1, "left").e
        e3 == IF row.Style = "bold" THEN SetBold(e2, FALSE)
              ELSE IF row.Style = "small" THEN SetSmall(e2, FALSE)
              ELSE e2
    IN  IF row.Line THEN LinePrint(e3) ELSE e3

\* variant: the alignment is not set back to left
nodeCloseKeepsAlign(e, row) ==
    LET e1 == timeoutWait(Linefeed(timeoutWait(e)))
        e3 == IF row.Style = "bold" THEN SetBold(e1, FALSE)
              ELSE IF row.Style = "small" THEN SetSmall(e1, FALSE)
              ELSE e1
        e4 == IF row.Size # "normal" THEN SetFontSize(e3, "normal") ELSE e3
    IN  IF row.Line THEN LinePrint(e4) ELSE e4

\* variant: after a recorded transport failure the row is left as it is
nodeCloseStopsOnFailure(e, row) ==
    LET e1 == timeoutWait(Linefeed(timeoutWait(e)))
        e2 == SetAlign(e1, "left").e
        e3 == IF row.Style = "bold" THEN SetBold(e2, FALSE)
              ELSE IF row.Style = "small" THEN SetSmall(e2, FALSE)
              ELSE e2
        e4 == IF row.Size # "normal" THEN SetFontSize(e3, "normal") ELSE e3
    IN  IF e.err THEN e ELSE IF row.Line THEN LinePrint(e4) ELSE e4

\* a text run after the call of WriteText
nodeClose(e, row) ==
    LET e1 == timeoutWait(Linefeed(timeoutWait(e)))
        e2 == SetAlign(e1, "left").e
        e3 == IF row.Style = "bold" THEN SetBold(e2, FALSE)
              ELSE IF row.Style = "small" THEN SetSmall(e2, FALSE)
              ELSE e2
        e4 == IF row.Size # "normal" THEN SetFontSize(e3, "normal") ELSE e3
    IN  IF row.Line THEN LinePrint(e4) ELSE e4

----------------------------------------------------------------------------
(* The encoder used through its public operations, in any order *)

Called(op, arg, err) == [op |-> op, arg |-> arg, err |-> err]

\* no call is in progress; the caller is free to call any operation
Idle == pc = "idle" /\ run \in {"api", "state", "line", "column", "node", "param"}

\* Begin has run: it must precede every content-emitting call
Begun == p.dotPrintTime > 0

\* an operation that runs to completion in one step
Returns(e, op, arg, err) ==
    /\ p' = e
    /\ last' = Called(op, arg, err)
    /\ UNCHANGED <<pc, todo, opts, run, doc>>

\* the encoder after New, used through its operations
InitApi ==
    /\ p = New
    /\ last = Called("New", <<>>, "nil")
    /\ pc = "idle"
    /\ todo = <<>>
    /\ opts = Options(0, 0, "")
    /\ run = "api"
    /\ doc = EmptyDoc

CallSetAlign ==
    /\ Idle
    /\ Begun
    /\ \E align \in AlignTokens :
         LET r == SetAlign(Fresh(p), align)
         IN  Returns(r.e, "SetAlign", align, IF r.err THEN "invalid" ELSE "nil")

CallWriteText ==
    /\ Idle
    /\ Begun
    /\ p.column < (IF run = "api" THEN MaxColumnSeen
                   ELSE IF run = "column" THEN 256 ELSE MaxLen)
    /\ \E data \in (IF run = "api" THEN ShortTexts \cup SampleTexts
                   ELSE IF run = "column" THEN ColumnTexts ELSE {<<97>>}) :
         \E r \in WriteText(Fresh(p), data) :
            Returns(r.e, "WriteText", data, r.err)

CallSetFontSize ==
    /\ Idle
    /\ Begun
    /\ \E name \in SizeTokens :
         Returns(SetFontSize(Fresh(p), name), "SetFontSize", name, "nil")

CallFeed ==
    /\ Idle
    /\ Begun
    /\ \E n \in (IF run = "param" THEN ByteValues ELSE FeedCounts) :
         Returns(Feed(Fresh(p), n), "Feed", n, "nil")

CallLinefeed ==
    /\ Idle
    /\ Begun
    /\ Returns(Linefeed(Fresh(p)), "Linefeed", <<>>, "nil")

CallLinePrint ==
    /\ Idle
    /\ Begun
    /\ Returns(LinePrint(Fresh(p)), "LinePrint", <<>>, "nil")

CallBarCode ==
    /\ Idle
    /\ Begun
    /\ \E c \in (IF run = "line"
                THEN BarCodeCalls \cup { <<n, <<49>>>> : n \in SymbologyNames }
                ELSE BarCodeCalls) :
         Returns(BarCode(Fresh(p), c[1], c[2]), "BarCode", c, "nil")

CallBegin ==
    /\ Idle
    /\ Returns(Begin(Fresh(p)), "Begin", <<>>, "nil")

CallInit ==
    /\ Idle
    /\ Begun
    /\ Returns(Init_(Fresh(p)), "Init", <<>>, "nil")

CallTestPage ==
    /\ Idle
    /\ Returns(TestPage(Fresh(p)), "TestPage", <<>>, "nil")

CallCut ==
    /\ Idle
    /\ Returns(Cut(Fresh(p)), "Cut", <<>>, "nil")

CallSetCodePage ==
    /\ Idle
    /\ \E code \in CodePages :
         Returns(SetCodePage(Fresh(p), code), "SetCodePage", code, "nil")

CallSetBold ==
    /\ Idle
    /\ \E state \in BOOLEAN :
         Returns(SetBold(Fresh(p), state), "SetBold", state, "nil")

CallSetSmall ==
    /\ Idle
    /\ \E state \in BOOLEAN :
         Returns(SetSmall(Fresh(p), state), "SetSmall", state, "nil")

CallSetBarcodeHeight ==
    /\ Idle
    /\ \E val \in ByteValues :
         Returns(setBarcodeHeight(Fresh(p), val), "setBarcodeHeight", val, "nil")

\* the caller assigns the exported field Firmware
SetFirmware ==
    /\ Idle
    /\ \E f \in FirmwareLevels :
         /\ f # p.Firmware
         /\ Returns([Fresh(p) EXCEPT !.Firmware = f], "Firmware", f, "nil")

\* SetLang returns, or the process exits and no operation follows
CallSetLang ==
    /\ Idle
    /\ \E lang \in LangCodes :
         LET r == SetLang(Fresh(p), lang)
         IN  IF r.fatal
             THEN /\ p' = r.e
                  /\ last' = Called("SetLang", lang, "fatal")
                  /\ run' = "exit"
                  /\ UNCHANGED <<pc, todo, opts, doc>>
             ELSE Returns(r.e, "SetLang", lang, "nil")

\* the serial line fails, or works again
PortChange ==
    /\ pc = "idle" \/ run = "node"
    /\ run # "exit"
    /\ p' = [p EXCEPT !.Serial.up = ~@]
    /\ UNCHANGED <<last, pc, todo, opts, run, doc>>

----------------------------------------------------------------------------
(* WriteNode, row by row *)

\* WriteNode(data, set) is entered with the encoder e
EnterWriteNode(e, data, set) ==
    /\ p' = e
    /\ last' = Called("WriteNode", data, "nil")
    /\ todo' = data
    /\ opts' = set
    /\ pc' = IF data = <<>> THEN "idle" ELSE "node"

\* the loop goes on with the next row, or WriteNode returns
NextRow ==
    /\ todo' = Tail(todo)
    /\ pc' = IF Tail(todo) = <<>> THEN "idle" ELSE "node"

CallWriteNode ==
    /\ Idle
    /\ Begun
    /\ p.column < MaxColumnSeen
    /\ \E data \in (IF run = "api" THEN RowSeqs
                   ELSE IF run = "node" THEN {doc.Header} ELSE {<<BarCodeRow>>}),
          set \in (IF run = "node" THEN {doc.BarCode} ELSE OptionSets) :
         EnterWriteNode(Fresh(p), data, set)
    /\ UNCHANGED <<run, doc>>

NodeStep ==
    /\ pc = "node"
    /\ LET row == Head(todo)
       IN  IF IsTextRun(row)
           THEN /\ p' = nodeOpen(p, row)
                /\ last' = Called("row.open", row, "nil")
                /\ pc' = "text"
                /\ UNCHANGED todo
           ELSE /\ p' = nodeOther(p, row, opts)
                /\ last' = Called("row", row, "nil")
                /\ NextRow
    /\ UNCHANGED <<opts, run, doc>>

NodeText ==
    /\ pc = "text"
    /\ \E r \in WriteText(p, Head(todo).Text) :
         /\ p' = r.e
         /\ last' = Called("row.text", Head(todo), r.err)
    /\ pc' = "close"
    /\ UNCHANGED <<todo, opts, run, doc>>

NodeClose ==
    /\ pc = "close"
    /\ p' = nodeClose(p, Head(todo))
    /\ last' = Called("row", Head(todo), "nil")
    /\ NextRow
    /\ UNCHANGED <<opts, run, doc>>

NextApi ==
    \/ CallSetAlign
    \/ CallWriteText
    \/ CallSetFontSize
    \/ CallFeed
    \/ CallLinefeed
    \/ CallLinePrint
    \/ CallBarCode
    \/ CallBegin
    \/ CallInit
    \/ CallWriteNode
    \/ NodeStep
    \/ NodeText
    \/ NodeClose

----------------------------------------------------------------------------
(* The file command: runFile of main.go, from the loaded template on *)

InitFile ==
    /\ p = New
    /\ last = Called("New", <<>>, "nil")
    /\ pc = "idle"
    /\ todo = <<>>
    /\ opts = Options(0, 0, "")
    /\ run = "begin"
    /\ doc \in Templates

\* a statement of runFile that is a single call
FileStep(e, op, arg, to) ==
    /\ p' = e
    /\ last' = Called(op, arg, "nil")
    /\ run' = to
    /\ UNCHANGED <<pc, todo, opts, doc>>

\* variant: WriteNode and the feed after it are issued for an empty section too
FileSectionUnguarded(rows, to, skip) ==
    /\ EnterWriteNode(p, rows, doc.BarCode)
    /\ run' = to
    /\ UNCHANGED doc

\* a section of the template: WriteNode is called when it has rows
FileSection(rows, to, skip) ==
    IF Len(rows) > 0
    THEN /\ EnterWriteNode(p, rows, doc.BarCode)
         /\ run' = to
         /\ UNCHANGED doc
    ELSE /\ run' = skip
         /\ UNCHANGED <<p, last, pc, todo, opts, doc>>

FileBegin ==
    /\ run = "begin"
    /\ FileStep(Begin(p), "Begin", <<>>, "codepage")

FileSetCodePage ==
    /\ run = "codepage"
    /\ FileStep(SetCodePage(p, doc.encode), "SetCodePage", doc.encode, "header")

FileHeader ==
    /\ run = "header" /\ pc = "idle"
    /\ FileSection(doc.Header, "feed1", "lines")

FileFeed1 ==
    /\ run = "feed1" /\ pc = "idle"
    /\ FileStep(Feed(p, 1), "Feed", 1, "lines")

FileLines ==
    /\ run = "lines" /\ pc = "idle"
    /\ FileSection(doc.Lines, "footer", "footer")

FileFooter ==
    /\ run = "footer" /\ pc = "idle"
    /\ FileSection(doc.Footer, "feed3", "done")

FileFeed3 ==
    /\ run = "feed3" /\ pc = "idle"
    /\ FileStep(Feed(p, 3), "Feed", 3, "done")

Init == InitApi \/ InitFile

Next ==
    \/ NextApi
    \/ FileBegin
    \/ FileSetCodePage
    \/ FileHeader
    \/ FileFeed1
    \/ FileLines
    \/ FileFooter
    \/ FileFeed3

Spec == Init /\ [][Next]_vars

----------------------------------------------------------------------------
(* The state toggles and the state that reset restores *)

InitState ==
    /\ p = New
    /\ last = Called("New", <<>>, "nil")
    /\ pc = "idle"
    /\ todo = <<>>
    /\ opts = Options(0, 0, "")
    /\ run = "state"
    /\ doc = EmptyDoc

CallSetUnderline ==
    /\ Idle /\ Begun
    /\ Returns(SetUnderline(Fresh(p), 1), "SetUnderline", 1, "nil")

CallSetEmphasize ==
    /\ Idle /\ Begun
    /\ Returns(SetEmphasize(Fresh(p), 1), "SetEmphasize", 1, "nil")

CallSetUpsidedown ==
    /\ Idle /\ Begun
    /\ Returns(SetUpsidedown(Fresh(p), 1), "SetUpsidedown", 1, "nil")

CallSetRotate ==
    /\ Idle /\ Begun
    /\ Returns(SetRotate(Fresh(p), 1), "SetRotate", 1, "nil")

CallSetReverse ==
    /\ Idle /\ Begun
    /\ Returns(SetReverse(Fresh(p), 1), "SetReverse", 1, "nil")

CallSetSmooth ==
    /\ Idle /\ Begun
    /\ Returns(SetSmooth(Fresh(p), 1), "SetSmooth", 1, "nil")

NextState ==
    \/ CallSetUnderline
    \/ CallSetEmphasize
    \/ CallSetUpsidedown
    \/ CallSetRotate
    \/ CallSetReverse
    \/ CallSetSmooth
    \/ CallSetFontSize
    \/ CallWriteText
    \/ CallWriteNode
    \/ NodeStep
    \/ CallInit
    \/ CallBegin

SpecState == InitState /\ [][NextState]_vars

----------------------------------------------------------------------------
(* The commands of the encoder on a line that can fail, for both firmware   *)
(* levels                                                                   *)

InitLine ==
    /\ p = New
    /\ last = Called("New", <<>>, "nil")
    /\ pc = "idle"
    /\ todo = <<>>
    /\ opts = Options(0, 0, "")
    /\ run = "line"
    /\ doc = EmptyDoc

NextLine ==
    \/ CallBegin
    \/ CallInit
    \/ CallFeed
    \/ CallSetAlign
    \/ CallWriteText
    \/ CallLinePrint
    \/ CallBarCode
    \/ CallTestPage
    \/ CallCut
    \/ CallSetCodePage
    \/ CallSetBold
    \/ CallSetSmall
    \/ CallSetLang
    \/ SetFirmware
    \/ PortChange

SpecLine == InitLine /\ [][NextLine]_vars

----------------------------------------------------------------------------
(* The column counter over its whole range: text written a byte at a time,  *)
(* with changes of the font size                                            *)

InitColumn ==
    /\ p = New
    /\ last = Called("New", <<>>, "nil")
    /\ pc = "idle"
    /\ todo = <<>>
    /\ opts = Options(0, 0, "")
    /\ run = "column"
    /\ doc = EmptyDoc

NextColumn ==
    \/ CallBegin
    \/ CallWriteText
    \/ CallSetFontSize

SpecColumn == InitColumn /\ [][NextColumn]_vars

----------------------------------------------------------------------------
(* WriteNode over documents of every kind of row, on a line that can fail   *)
(* while the rows are written; doc.Header is the sequence WriteNode is      *)
(* called with and doc.BarCode the options                                  *)

InitNode ==
    /\ p = New
    /\ last = Called("New", <<>>, "nil")
    /\ pc = "idle"
    /\ todo = <<>>
    /\ opts = Options(0, 0, "")
    /\ run = "node"
    /\ doc \in { Template(rows, <<>>, <<>>, set, "PC437") :
                   rows \in NodeSeqs, set \in NodeOptionSets }

NextNode ==
    \/ CallBegin
    \/ CallWriteNode
    \/ NodeStep
    \/ NodeText
    \/ NodeClose
    \/ PortChange

SpecNode == InitNode /\ [][NextNode]_vars

\* the position in the loop of WriteNode moves on: from the head of the body
\* to the call of WriteText or to the next row, from the call of WriteText
\* to the statements after it, from these to the next row
NodeMove ==
    /\ run = "node"
    /\ \/ pc = "node" /\ IsTextRun(Head(todo)) /\ pc' = "text" /\ todo' = todo
       \/ pc = "node" /\ ~IsTextRun(Head(todo)) /\ NextRow
       \/ pc = "text" /\ pc' = "close" /\ todo' = todo
       \/ pc = "close" /\ NextRow

\* the loop of WriteNode is sequential code in one thread: while it is in
\* the loop, its next statement is executed
SpecNodeFair == SpecNode /\ WF_<<pc, todo>>(NodeMove)

----------------------------------------------------------------------------
(* The commands with a one-byte parameter, over the whole range of the      *)
(* parameter                                                                *)

InitParam ==
    /\ p = New
    /\ last = Called("New", <<>>, "nil")
    /\ pc = "idle"
    /\ todo = <<>>
    /\ opts = Options(0, 0, "")
    /\ run = "param"
    /\ doc = EmptyDoc

NextParam ==
    \/ CallBegin
    \/ CallSetBarcodeHeight
    \/ CallFeed

SpecParam == InitParam /\ [][NextParam]_vars

----------------------------------------------------------------------------
(* Properties *)

\* the payload bytes WriteText has handed to the port, in order
Payload(e) ==
    Flatten(SelectSeq(e.Serial.log, LAMBDA ev : ev.k = "text"))

\* the line feeds WriteText has synthesized
Synthesized(e) ==
    Flatten(SelectSeq(e.Serial.log, LAMBDA ev : ev.k = "wrap"))

\* the writes of a timeline, the sleeps left out
Writes(log) == SelectSeq(log, LAMBDA ev : ev.k # "sleep")

WithoutDC3(raw) == SelectSeq(raw, LAMBDA b : b # 19)

Has(raw, b) == \E i \in 1 .. Len(raw) : raw[i] = b

\* C1: SetAlign returns no error exactly for the six tokens left, center,
\* right, L, C, R and an error for every other string.
C1_SetAlignAcceptsSixTokens ==
    last.op = "SetAlign" =>
        (last.err = "nil" <=> last.arg \in {"left", "center", "right", "L", "C", "R"})

C1_Witness ==
    /\ last.op = "SetAlign"
    /\ last.arg = "Left"
    /\ last.err = "invalid"

\* C2: when SetAlign rejects its argument no alignment command is written to
\* the transport, so the printer keeps its alignment.
C2_RejectedSetAlignWritesNothing ==
    (last.op = "SetAlign" /\ last.err = "invalid") => Bytes(p) = <<>>

\* C3, as stated: WriteText(t) writes exactly len(transcode(t)) payload bytes,
\* the synthesized line feeds not counted (transcode taken after the entity
\* replacement).
C3_PayloadLengthIsTranscodedLength ==
    (last.op = "WriteText" /\ last.err # "encode") =>
        \E d \in textReplace(last.arg) :
            /\ ~encString(p.enc, d).err
            /\ Len(Payload(p)) = Len(encString(p.enc, d).raw)

\* C3, amended: the payload bytes WriteText(t) writes are exactly the bytes of
\* the transcoded text other than 0x13, in order; the synthesized line feeds
\* are not counted.
C3_PayloadIsTranscodedWithoutDC3 ==
    (last.op = "WriteText" /\ last.err # "encode") =>
        \E d \in textReplace(last.arg) :
            /\ ~encString(p.enc, d).err
            /\ Payload(p) = WithoutDC3(encString(p.enc, d).raw)

C3_Witness ==
    /\ last.op = "WriteText"
    /\ last.err = "nil"
    /\ last.arg = <<19, 97>>
    /\ Payload(p) = <<97>>
    /\ Synthesized(p) = <<10>>

\* C4: for a text without newline (and without a byte 0x13) and an initial
\* column c0 <= maxColumn, the column after WriteText is
\* (c0 + len(transcode(t))) mod maxColumn.
C4_ColumnIsSumModMaxColumn ==
    [][ ( /\ last'.op = "WriteText"
          /\ last'.err = "nil"
          /\ run = "api"
          /\ p.column <= p.maxColumn
          /\ \A d \in textReplace(last'.arg) :
                /\ ~Has(encString(p.enc, d).raw, 10)
                /\ ~Has(encString(p.enc, d).raw, 19) )
        => \E d \in textReplace(last'.arg) :
              p'.column = (p.column + Len(encString(p.enc, d).raw)) % p.maxColumn
      ]_vars

\* C5: column <= maxColumn in every reachable state.
C5_ColumnWithinMaxColumn == p.column <= p.maxColumn

\* C6: reset is idempotent: in every reachable state, the state after two
\* consecutive resets equals the state after one reset, in every field, the
\* pending delay included.
C6_ResetIdempotent == Fresh(reset(reset(p))) = Fresh(reset(p))

C6_Witness ==
    /\ p.column > 0
    /\ p.maxColumn = 16
    /\ p.underline = 1
    /\ p.smooth = 1
    /\ Fresh(reset(p)) # Fresh(p)
    /\ Fresh(reset(reset(p))) = Fresh(reset(p))

\* C7: after reset, from any reachable state, the fields hold the defaults
\* and the first bytes reset writes are ESC '@'.
C7_ResetRestoresDefaults ==
    LET r == reset(Fresh(p))
    IN  /\ r.width = 1 /\ r.height = 1
        /\ r.underline = 0 /\ r.emphasize = 0 /\ r.upsidedown = 0
        /\ r.rotate = 0 /\ r.reverse = 0 /\ r.smooth = 0
        /\ r.prevByte = 10
        /\ r.column = 0
        /\ r.maxColumn = 32
        /\ r.charHeight = 24
        /\ r.lineSpacing = 6
        /\ r.barcodeHeight = 50
        /\ r.printDensity = 10
        /\ SubSeq(Bytes(r), 1, 2) = <<27, 64>>

C7_Witness ==
    /\ p.underline = 1 /\ p.emphasize = 1 /\ p.upsidedown = 1
    /\ p.rotate = 1 /\ p.reverse = 1 /\ p.smooth = 1
    /\ p.prevByte = 97
    /\ p.column = 2
    /\ p.maxColumn = 16
    /\ p.charHeight = 48
    /\ p.barcodeHeight = 80
    /\ reset(Fresh(p)).column = 0

\* C8: while WriteNode emits the text of a text run of size "large",
\* maxColumn is 16 and charHeight 48; when WriteNode has finished that row,
\* maxColumn is 32 and charHeight 24 again.
C8_LargeRowShrinksThenRestores ==
    /\ (pc \in {"text", "close"} /\ Head(todo).Size = "large")
          => (p.maxColumn = 16 /\ p.charHeight = 48)
    /\ (last.op = "row" /\ IsTextRun(last.arg) /\ last.arg.Size = "large")
          => (p.maxColumn = 32 /\ p.charHeight = 24)

C8_Witness ==
    /\ pc = "close"
    /\ Head(todo).Size = "large"
    /\ Payload(p) = <<97, 97>>
    /\ p.maxColumn = 16

\* the encoder of runFile when the first section starts
Prelude(encode) == SetCodePage(Begin(New), encode)

\* what the transport has received since the first section started
DocLog == SubSeq(p.Serial.log, Len(Prelude(doc.encode).Serial.log) + 1,
                 Len(p.Serial.log))

IsFeed(ev) == Len(ev.data) = 3 /\ ev.data[1] = 27 /\ ev.data[2] = 100

\* the text bytes, feed commands and rule dashes of a timeline, in order
Content(log) ==
    SelectSeq(log, LAMBDA ev : ev.k = "text" \/ IsFeed(ev) \/ ev.data = <<45>>)

RECURSIVE Dashes(_)
Dashes(n) == IF n = 0 THEN <<>> ELSE <<45>> \o Dashes(n - 1)

SizeNormal == <<29, 33, 0, 10>>

AlignCmd(a) == <<27, 97, a>>

FeedCmd(n) == <<27, 100, n>>

\* C9, as stated: for the scenario template the text, feeds and rule come in
\* the order STORE, one feed(1), "item 1", one feed(1), the rule, THANKS,
\* feed(3), with no other feed command in between.
C9_ScenarioContent ==
    (run = "done" /\ doc = ScenarioDoc) =>
        Flatten(Content(DocLog)) =
            STORE \o FeedCmd(1) \o ITEM1 \o FeedCmd(1) \o Dashes(32)
                  \o THANKS \o FeedCmd(3)

\* C9, amended: every text run ends with its own feed(1) and the align-left
\* reset and is bracketed by the size command GS '!' 0 LF; the header is
\* followed by the feed(1) of runFile and the footer by its feed(3).
C9_ScenarioBytes ==
    (run = "done" /\ doc = ScenarioDoc) =>
        Flatten(DocLog) =
            SizeNormal \o AlignCmd(1) \o STORE \o FeedCmd(1) \o AlignCmd(0)
                \o SizeNormal \o FeedCmd(1)
            \o SizeNormal \o AlignCmd(0) \o ITEM1 \o FeedCmd(1) \o AlignCmd(0)
                \o SizeNormal \o Dashes(32)
            \o SizeNormal \o AlignCmd(1) \o THANKS \o FeedCmd(1) \o AlignCmd(0)
                \o SizeNormal \o FeedCmd(3)

C9_Witness ==
    /\ run = "done"
    /\ doc = ScenarioDoc
    /\ Len(SelectSeq(DocLog, IsFeed)) = 5

C11_ByteTimeIs573 ==
    /\ BYTETIME = 573
    /\ 2 * BAUDRATE * BYTETIME <= (2 * 11 * 1000000) + BAUDRATE
    /\ (2 * 11 * 1000000) + BAUDRATE < 2 * BAUDRATE * (BYTETIME + 1)
    /\ last.op = "SetFontSize" => p.resumeTime = 4 * 573
    /\ last.op = "SetAlign" => p.resumeTime = 3 * 573

C11_Witness ==
    /\ last.op = "SetFontSize"
    /\ Len(Bytes(p)) = 4
    /\ p.resumeTime = 2292

\* C12: when the text cannot be transcoded WriteText returns the encoding
\* error before any byte is written: the timeline of the call is empty and
\* every field of the encoder, column, prevByte and resumeTime among them, is
\* as before the call (for a direct call and for the call made by WriteNode).
C12_EncodingErrorWritesNothing ==
    [][ /\ (last'.op = "WriteText" /\ last'.err = "encode") => p' = Fresh(p)
        /\ (last'.op = "row.text" /\ last'.err = "encode") => p' = p
      ]_vars

C12_Witness ==
    /\ last.op = "WriteText"
    /\ last.arg = <<8364>>
    /\ last.err = "encode"
    /\ p.column > 0
    /\ p.prevByte = 97
    /\ p.Serial.log = <<>>

\* the text has length zero after entity replacement and transcoding
ZeroLength(enc, data) ==
    \A d \in textReplace(data) :
        ~encString(enc, d).err /\ encString(enc, d).raw = <<>>

\* C13: a text of length zero after entity replacement and transcoding makes
\* WriteText return the empty-payload error, and a call that returns it
\* writes no byte and leaves every field of the encoder as it was.
C13_EmptyPayloadIsNoOp ==
    [][ /\ (last'.op = "WriteText" /\ ZeroLength(p.enc, last'.arg))
              => last'.err = "empty"
        /\ (last'.op = "WriteText" /\ last'.err = "empty") => p' = Fresh(p)
        /\ (last'.op = "row.text" /\ ZeroLength(p.enc, last'.arg.Text))
              => last'.err = "empty"
        /\ (last'.op = "row.text" /\ last'.err = "empty") => p' = p
      ]_vars

C13_Witness ==
    /\ last.op = "WriteText"
    /\ last.arg = <<>>
    /\ last.err = "empty"
    /\ p.column > 0
    /\ p.prevByte = 97
    /\ p.Serial.log = <<>>

\* C14, as stated: a write to the transport that fails, in whatever operation
\* and through whatever write routine, leaves the error recorded, so that
\* IsOk() is false afterwards.
C14_WriteFailureIsRecorded ==
    (\E i \in 1 .. Len(p.Serial.log) : ~p.Serial.log[i].ok) => ~IsOk(p)

\* C15: once IsOk() is false it stays false, whatever operation follows:
\* later writes that succeed, reset (in Init) and Begin included.
C15_ErrorIsSticky ==
    [][ ~IsOk(p) => ~IsOk(p') ]_vars

C15_Witness ==
    /\ ~IsOk(p)
    /\ p.Serial.up
    /\ last.op = "Begin"
    /\ Len(Writes(p.Serial.log)) > 0
    /\ \A i \in 1 .. Len(p.Serial.log) : p.Serial.log[i].ok

\* C16, as stated: in a run of the file command no byte is written to the
\* transport before Begin is invoked, and the first byte the transport
\* receives is the wake byte 0xFF of Begin.
C16_FirstByteIsWake ==
    run \notin {"api", "state", "line"} =>
        /\ run = "begin" => Bytes(p) = <<>>
        /\ Bytes(p) # <<>> => Bytes(p)[1] = 255

RECURSIVE SleptBefore(_, _)
\* the time slept in the sleeps that directly precede the event j of a timeline
SleptBefore(log, j) ==
    IF j > 1 /\ log[j - 1].k = "sleep"
    THEN log[j - 1].us + SleptBefore(log, j - 1)
    ELSE 0

\* the last write before the event j of a timeline, 0 when there is none
PrevWrite(log, j) ==
    LET W == { i \in 1 .. (j - 1) : log[i].k # "sleep" }
    IN  IF W = {} THEN 0 ELSE CHOOSE i \in W : \A h \in W : h <= i

\* C17, as stated: every write is directly preceded by a sleep of the delay
\* pending when it is issued, and no byte is written while the delay charged
\* by the previous write, the transmission time of its bytes at least, is
\* outstanding.
C17_WritesArePaced ==
    LET log == p.Serial.log
    IN  \A j \in 1 .. Len(log) :
            log[j].k # "sleep" =>
                /\ j > 1
                /\ log[j - 1].k = "sleep"
                /\ log[j - 1].us = log[j].due
                /\ PrevWrite(log, j) # 0 =>
                      SleptBefore(log, j) >= Len(log[PrevWrite(log, j)].data) * BYTETIME

\* the first half of C17 alone: every write is directly preceded by a sleep
\* of the delay pending when it is issued
WaitPrecedesEveryWrite ==
    LET log == p.Serial.log
    IN  \A j \in 1 .. Len(log) :
            log[j].k # "sleep" =>
                (j > 1 /\ log[j - 1].k = "sleep" /\ log[j - 1].us = log[j].due)

\* C18, as stated: after Feed(n) the column is 0 and prevByte is the line
\* feed, for every n and both firmware levels.
C18_FeedResetsColumn ==
    last.op = "Feed" => (p.column = 0 /\ p.prevByte = ASCIILF)

\* n writes of one line feed byte each
LineFeeds(n) == [i \in 1 .. n |-> <<10>>]

\* the data of the writes of a timeline, write by write
WriteData(log) == [i \in 1 .. Len(Writes(log)) |-> Writes(log)[i].data]

\* C19, as stated: Feed(n) writes one command ESC 'd' n of three bytes in one
\* write when Firmware >= 264, and n single line feed bytes and no ESC 'd'
\* otherwise.
C19_FeedEmitsNUnits ==
    last.op = "Feed" =>
        WriteData(p.Serial.log) =
            IF p.Firmware >= 264 THEN << <<27, 100, last.arg>> >>
            ELSE LineFeeds(last.arg)

\* the code the symbology table assigns to a name, 4 (CODE39) by default
SymbologyCode(name) ==
    IF name \in {"UPC_A", "UPCA"} THEN 0
    ELSE IF name \in {"UPC_E", "UPCE"} THEN 1
    ELSE IF name = "EAN13" THEN 2
    ELSE IF name = "EAN8" THEN 3
    ELSE IF name = "CODE39" THEN 4
    ELSE IF name = "I25" THEN 5
    ELSE IF name = "CODEBAR" THEN 6
    ELSE IF name = "CODE93" THEN 7
    ELSE IF name = "CODE128" THEN 8
    ELSE IF name = "CODE11" THEN 9
    ELSE IF name = "MSI" THEN 10
    ELSE 4

\* C20: BarCode writes GS 'H' 2, GS 'w' 3, GS 'k' and the symbology code,
\* the payload bytes and a feed of two lines, in this order and nothing else.
C20_BarCodeSequence ==
    last.op = "BarCode" =>
        Bytes(p) =
            <<29, 72, 2>> \o <<29, 119, 3>>
            \o <<29, 107, SymbologyCode(last.arg[1])>>
            \o last.arg[2]
            \o (IF p.Firmware >= 264 THEN <<27, 100, 2>> ELSE <<10, 10>>)

C20_Witness ==
    /\ last.op = "BarCode"
    /\ last.arg = <<"CODE128", <<49, 50>>>>
    /\ p.Firmware = 263
    /\ Len(Bytes(p)) = 13

\* the write that follows the payload in the timeline of BarCode: the fifth
\* write, the fourth when the payload is empty and is not written
AfterPayload(log, payload) == Writes(log)[IF payload = <<>> THEN 4 ELSE 5]

\* C21, as stated: when BarCode has written the payload the pending delay is
\* at least (barcodeHeight + 40) * dotPrintTime, so the feed that follows is
\* written only after a wait of that length.
C21_BarCodeDelayAfterPayload ==
    last.op = "BarCode" =>
        AfterPayload(p.Serial.log, last.arg[2]).due
            >= (p.barcodeHeight + 40) * p.dotPrintTime

\* C22: the type command of BarCode carries the code the table gives for the
\* name, 4 for a name that is not in the table, and the payload is written
\* after it in either case; the call reports no error.
C22_SymbologyTable ==
    last.op = "BarCode" =>
        /\ Writes(p.Serial.log)[3].data = <<29, 107, SymbologyCode(last.arg[1])>>
        /\ last.arg[2] # <<>> => Writes(p.Serial.log)[4].data = last.arg[2]
        /\ last.err = "nil"

C22_Witness ==
    /\ last.op = "BarCode"
    /\ last.arg = <<"code128", <<49>>>>
    /\ Writes(p.Serial.log)[3].data = <<29, 107, 4>>
    /\ Writes(p.Serial.log)[4].data = <<49>>

\* the size tokens SetFontSize recognizes
SizeNames == {"large", "L", "medium", "M", "normal"}

\* the encoder without its timeline, its pending delay and its font metrics
BesidesFontSize(e) ==
    [e EXCEPT !.Serial.log = <<>>, !.resumeTime = 0,
              !.charHeight = 0, !.maxColumn = 0]

\* C23, as stated: SetFontSize sets charHeight and maxColumn from the table
\* (large 48, 16; medium 48, 32; normal 24, 32), writes the size command
\* GS '!' n with n = 17, 1, 0, and changes no other field (the pending delay
\* of the write aside).
C23_SetFontSizeCommand ==
    [][ (last'.op = "SetFontSize" /\ last'.arg \in SizeNames) =>
          LET large == last'.arg \in {"large", "L"}
              medium == last'.arg \in {"medium", "M"}
          IN  /\ p'.charHeight = (IF large \/ medium THEN 48 ELSE 24)
              /\ p'.maxColumn = (IF large THEN 16 ELSE 32)
              /\ Bytes(p') = <<29, 33, (IF large THEN 17 ELSE IF medium THEN 1 ELSE 0)>>
              /\ BesidesFontSize(p') = BesidesFontSize(p)
      ]_vars

\* C24, as stated: SetFontSize with a token it does not recognize returns an
\* error, writes no byte and leaves every field, charHeight and maxColumn
\* among them, as it was.
C24_SetFontSizeRejectsUnknown ==
    [][ (last'.op = "SetFontSize" /\ last'.arg \notin SizeNames) =>
          /\ last'.err # "nil"
          /\ p' = Fresh(p)
      ]_vars

\* C25, as stated: SetLang with a language code it does not recognize
\* returns an error to its caller; the session goes on, nothing is written
\* and the state is unchanged.
C25_SetLangReturnsError ==
    (last.op = "SetLang"
        /\ last.arg \notin {"en", "fr", "de", "uk", "da", "sv", "it", "es", "ja", "no"})
    => /\ last.err = "invalid"
       /\ run # "exit"
       /\ Bytes(p) = <<>>

\* C26, as stated: Cut writes the four bytes GS 'V' 'A' NUL.
C26_CutBytes ==
    last.op = "Cut" => Bytes(p) = <<29, 86, 65, 0>>

C28_TestPageDelay ==
    [][ ( /\ last.op = "TestPage"
          /\ Begun
          /\ p'.Serial.up = p.Serial.up
          /\ last'.op # "Firmware" )
        => /\ Bytes(p) = <<18, 84>>
           /\ p.resumeTime = 19110600
           /\ p.resumeTime = (p.dotPrintTime * 24 * 26) + (p.dotFeedTime * ((6 * 26) + 30))
           /\ Writes(p'.Serial.log) # <<>> =>
                 /\ p'.Serial.log[1].k = "sleep"
                 /\ p'.Serial.log[1].us = 19110600
      ]_vars

\* C29: WriteText never writes a byte 0x13; the other bytes of the text are
\* sent in their order, and the text with its bytes 0x13 leaves the encoder,
\* column, prevByte and pending delay included, and the timeline exactly as
\* the same text without them does.
C29_DC3IsSkipped ==
    /\ \A i \in 1 .. Len(p.Serial.log) :
          p.Serial.log[i].k \in {"text", "wrap"} => ~Has(p.Serial.log[i].data, 19)
    /\ Begun =>
          \A raw \in ShortTexts :
              LET with == writeLoop(Fresh(p), raw)
                  without == writeLoop(Fresh(p), WithoutDC3(raw))
              IN  /\ ~Has(Bytes(with), 19)
                  /\ Payload(with) = WithoutDC3(raw)
                  /\ with = without

C29_Witness ==
    /\ last.op = "WriteText"
    /\ last.arg = <<19, 97>>
    /\ Payload(p) = <<97>>
    /\ p.column = 5
    /\ p.prevByte = 97
    /\ p.resumeTime = BYTETIME

\* C30, as stated: in WriteText a byte that is a line feed, or that is
\* processed when column = maxColumn, is followed by one synthesized line
\* feed, sets column to 0 and prevByte to line feed and leaves the pending
\* delay BYTETIME + charHeight*dotPrintTime + lineSpacing*dotFeedTime, larger
\* than BYTETIME; every other transmitted byte increments column by one and
\* leaves the pending delay BYTETIME.
C30_PerByteEffect ==
    [][ (last'.op = "WriteText" /\ Begun /\ Len(WithoutDC3(last'.arg)) = 1) =>
          LET c == WithoutDC3(last'.arg)[1]
          IN  IF c = ASCIILF \/ p.column = p.maxColumn
              THEN /\ Payload(p') = <<c>>
                   /\ Synthesized(p') = <<10>>
                   /\ p'.column = 0
                   /\ p'.prevByte = ASCIILF
                   /\ p'.resumeTime = BYTETIME + (p.charHeight * p.dotPrintTime)
                                         + (p.lineSpacing * p.dotFeedTime)
                   /\ p'.resumeTime > BYTETIME
              ELSE /\ Payload(p') = <<c>>
                   /\ Synthesized(p') = <<>>
                   /\ p'.column = p.column + 1
                   /\ p'.prevByte = c
                   /\ p'.resumeTime = BYTETIME
      ]_vars

\* the data of the writes a step has added to the timeline
NewWrites ==
    SubSeq(WriteData(p'.Serial.log), Len(WriteData(p.Serial.log)) + 1,
           Len(WriteData(p'.Serial.log)))

\* the commands that switch the style of a row on, and off
StyleCmds(row, n) ==
    IF row.Style = "bold" THEN << <<27, 32, n>>, <<27, 69, n>> >>
    ELSE IF row.Style = "small" THEN << <<27, 33, n>> >>
    ELSE <<>>

IsStyleCmd(d) == Len(d) = 3 /\ d[1] = 27 /\ d[2] \in {32, 69, 33}

IsAlignCmd(d) == Len(d) = 3 /\ d[1] = 27 /\ d[2] = 97

\* the parameter of the last command of a kind in a timeline is n,
\* or the timeline has no command of that kind
LastParam(log, IsCmd(_), n) ==
    LET cmds == SelectSeq(WriteData(log), IsCmd)
    IN  cmds # <<>> => cmds[Len(cmds)][3] = n

\* a text run opens with its style-on commands and ends its opening with an
\* align command; it closes with the feed, align-left and its style-off
\* commands, in that order
SetThenReset ==
    /\ (pc = "node" /\ pc' = "text") =>
          LET on == StyleCmds(Head(todo), 1)
          IN  /\ SubSeq(NewWrites, 1, Len(on)) = on
              /\ IsAlignCmd(NewWrites[Len(NewWrites)])
    /\ (pc = "close" /\ pc' # "close") =>
          LET off == StyleCmds(Head(todo), 0)
          IN  /\ NewWrites[1] = FeedCmd(1)
              /\ NewWrites[2] = AlignCmd(0)
              /\ SubSeq(NewWrites, 3, 2 + Len(off)) = off

\* WriteNode has returned from a call with at least one row
NodesDone == run = "node" /\ pc = "idle" /\ last.op = "row"

\* the last row of the sequence that sends an align command is a barcode
AlignedLastByBarCode(rows) ==
    \E i \in 1 .. Len(rows) :
        /\ rows[i].BarCode /\ ~IsTextRun(rows[i])
        /\ \A j \in (i + 1) .. Len(rows) : ~IsTextRun(rows[j])

\* C31, as stated: a text run sends its style-on commands before its text
\* and, after its text, the feed, align-left and the style-off commands;
\* after any sequence of nodes WriteNode leaves maxColumn 32, charHeight 24,
\* the last style command off and the last align command left.
C31_SetThenReset ==
    /\ [][SetThenReset]_vars
    /\ [](NodesDone =>
            /\ p.maxColumn = 32
            /\ p.charHeight = 24
            /\ LastParam(p.Serial.log, IsStyleCmd, 0)
            /\ LastParam(p.Serial.log, IsAlignCmd, 0))

\* C31, amended: the same, but the last align command is left unless a
\* barcode node comes after the last text run: a barcode node sends the align
\* command of its own alignment and no align-left follows it.
C31_TextRunsSetThenReset ==
    /\ [][SetThenReset]_vars
    /\ [](NodesDone =>
            /\ p.maxColumn = 32
            /\ p.charHeight = 24
            /\ LastParam(p.Serial.log, IsStyleCmd, 0)
            /\ IF AlignedLastByBarCode(doc.Header)
               THEN LastParam(p.Serial.log, IsAlignCmd, 1)
               ELSE LastParam(p.Serial.log, IsAlignCmd, 0))

C31_Witness ==
    /\ NodesDone
    /\ doc.Header = << TextRow(<<97>>, "right", "small", "large"),
                       TextRow(<<97>>, "center", "bold", "normal") >>
    /\ Payload(p) = <<97, 97>>
    /\ Len(SelectSeq(WriteData(p.Serial.log), IsStyleCmd)) = 6
    /\ Len(SelectSeq(WriteData(p.Serial.log), IsAlignCmd)) = 4

\* a step of WriteNode that processes a barcode node
BarCodeNodeStep ==
    /\ pc = "node"
    /\ ~IsTextRun(Head(todo)) /\ Head(todo).BarCode
    /\ ~(Head(todo).Line /\ Len(Head(todo).Text) = 0) /\ ~Head(todo).Image
    /\ p'.Serial.log # p.Serial.log

\* C32, as stated: for a barcode node WriteNode emits GS 'H' n with
\* n = options.chr, GS 'h' n with n = options.height, sets barcodeHeight to
\* options.height, and emits GS 'k' with the code of options.code.
C32_BarCodeOptionsApplied ==
    [][ BarCodeNodeStep =>
          /\ \E i \in 1 .. Len(NewWrites) : NewWrites[i] = <<29, 72, opts.Chr>>
          /\ \E i \in 1 .. Len(NewWrites) : NewWrites[i] = <<29, 104, opts.Height>>
          /\ p'.barcodeHeight = opts.Height
          /\ \E i \in 1 .. Len(NewWrites) :
                NewWrites[i] = <<29, 107, SymbologyCode(opts.Code)>>
      ]_vars

\* the first write of a timeline that has one
FirstWrite(log) == CHOOSE j \in 1 .. Len(log) : j = PrevWrite(log, j + 1) /\ PrevWrite(log, j) = 0

\* C33, as stated: the first byte Begin writes is the wake byte, and the
\* 500000 microseconds Begin sets are slept before it is written.
C33_ColdBootDelayIsWaited ==
    last.op = "Begin" =>
        LET j == FirstWrite(p.Serial.log)
        IN  /\ p.Serial.log[j].data = <<255>>
            /\ SleptBefore(p.Serial.log, j) >= 500000

\* "&amp;lt;" and "&lt;"
AmpLt == <<38, 97, 109, 112, 59, 108, 116, 59>>

Lt == <<38, 108, 116, 59>>

\* C34, as stated: textReplace has one result for every text, whatever the
\* order in which the table is traversed, and WriteText("&amp;lt;") sends
\* "&lt;", never "<".
C34_ReplacementIsDeterministic ==
    (last.op = "WriteText" /\ last.err = "nil") =>
        /\ Cardinality(textReplace(last.arg)) = 1
        /\ last.arg = AmpLt => WithoutDC3(Payload(p)) = Lt

\* C35, as stated: column counts the glyphs sent since the last line feed;
\* the glyph that is the maxColumn-th of its line, sent at column
\* maxColumn - 1, is followed by a synthesized line feed, so that no line
\* holds more than maxColumn glyphs.
C35_LineHoldsMaxColumn ==
    [][ ( /\ last'.op = "WriteText"
          /\ Begun
          /\ WithoutDC3(last'.arg) = <<97>>
          /\ p.column = p.maxColumn - 1 )
        => /\ Payload(p') = <<97>>
           /\ Synthesized(p') = <<10>>
           /\ p'.column = 0
      ]_vars

\* C36, as stated: setBarcodeHeight(v) writes the three bytes 1D 68 v for
\* every v in 1..255, and Feed(n) with Firmware >= 264 writes the three bytes
\* 1B 64 n for every n in 0..255.
C36_ParameterIsOneByte ==
    /\ (last.op = "setBarcodeHeight" /\ last.arg >= 1) =>
          Bytes(p) = <<29, 104, last.arg>>
    /\ (last.op = "Feed" /\ p.Firmware >= 264) =>
          Bytes(p) = <<27, 100, last.arg>>

\* the rows of a sequence from the i-th on
RowsFrom(rows, i) == SubSeq(rows, i, Len(rows))

RECURSIVE RowMarks(_)
\* what marks the rows of a sequence in the timeline: the feed of one unit
\* that ends a text run, the feed of two units that ends a barcode, the 32
\* dashes of a rule, nothing for an image
RowMarks(rows) ==
    IF rows = <<>> THEN <<>>
    ELSE (IF IsTextRun(Head(rows)) THEN << FeedCmd(1) >>
          ELSE IF Head(rows).BarCode /\ ~Head(rows).Line /\ ~Head(rows).Image
          THEN << FeedCmd(2) >>
          ELSE IF Head(rows).Line THEN [i \in 1 .. 32 |-> <<45>>]
          ELSE <<>>)
         \o RowMarks(Tail(rows))

IsRowMark(d) == d \in {FeedCmd(1), FeedCmd(2), <<45>>}

\* the rows WriteNode has gone through so far
RowsDone == SubSeq(doc.Header, 1, Len(doc.Header) - Len(todo))

\* C37: WriteNode goes through the rows of its sequence in order, one row
\* at a time, and returns; the marks of the rows gone through are in the
\* timeline once each and in order, whatever SetAlign and WriteText returned
\* and whether or not a transport failure is recorded; a text run, failing or
\* not, closes with its feed and the align-left command.
C37_EveryNodeOnce ==
    /\ [](run = "node" /\ last.op \notin {"New", "Begin"} =>
            /\ todo = RowsFrom(doc.Header, Len(doc.Header) - Len(todo) + 1)
            /\ pc = "idle" <=> todo = <<>>
            /\ pc = "text" => WriteText(p, Head(todo).Text) # {}
            /\ pc = "node" =>
                  SelectSeq(WriteData(p.Serial.log), IsRowMark) = RowMarks(RowsDone)
            /\ pc = "idle" =>
                  SelectSeq(WriteData(p.Serial.log), IsRowMark) = RowMarks(doc.Header))
    /\ [][ /\ pc # "idle" => todo' \in {todo, Tail(todo)}
           /\ (pc \in {"node", "close"} /\ last' # last) =>
                 /\ last'.arg = Head(todo)
                 /\ pc = "close" => todo' = Tail(todo)
           /\ (pc = "close" /\ pc' # "close") =>
                 /\ NewWrites[1] = FeedCmd(1)
                 /\ NewWrites[2] = AlignCmd(0)
      ]_vars
    /\ (pc # "idle") ~> (pc = "idle")

C37_Witness ==
    /\ NodesDone
    /\ doc.Header = << TextRow(<<8364>>, "middle", "", "normal"),
                       TextRow(<<>>, "L", "bold", "medium") >>
    /\ p.err
    /\ Payload(p) = <<>>
    /\ SelectSeq(WriteData(p.Serial.log), IsRowMark) = << FeedCmd(1), FeedCmd(1) >>

\* an operation of the encoder has returned
OperationDone ==
    /\ pc = "idle"
    /\ last.op \notin {"New", "Firmware"}
    /\ last.err # "fatal"

\* C38, as stated: when an operation returns, the pending delay is at least
\* BYTETIME for each byte of its last write, whether or not Begin has been
\* called.
C38_DelayCoversLastWrite ==
    OperationDone =>
        LET w == Writes(p.Serial.log)
        IN  w # <<>> => p.resumeTime >= Len(w[Len(w)].data) * BYTETIME

\* C38, amended: the same in the states where Begin has been called.
C38_DelayCoversLastWriteOnceBegun ==
    (OperationDone /\ Begun) =>
        LET w == Writes(p.Serial.log)
        IN  w # <<>> => p.resumeTime >= Len(w[Len(w)].data) * BYTETIME

C38_Witness ==
    /\ last.op = "TestPage"
    /\ Begun
    /\ Bytes(p) = <<18, 84>>
    /\ p.resumeTime > 2 * BYTETIME

====
